---- MODULE Spec2Model ----
(***************************************************************************)
(* Model of ai_code_agent.analyzer.CodeAnalyzer: the per-file phase of     *)
(* run(), the import-cycle traversal and the duplicate detector, over a    *)
(* bounded file system.                                                    *)
(***************************************************************************)
EXTENDS Integers, Sequences, FiniteSets, TLC

VARIABLES
    path,       \* self.path: [kind, ext] as os.path.isfile/isdir/endswith see it
    disk,       \* the files os.walk yields under the root (or the root file)
    results,    \* self.results
    pc,         \* position of the control flow inside run()
    walkIdx,    \* index of the next os.walk entry of run()'s loop
    modIdx,     \* index of the next key of `for mod in graph`
    stack,      \* the active dfs() frames: [node, path, i]
    depth,      \* recursion depth of the most recent dfs() call
    fresh,      \* TRUE while run() was invoked at most once on this instance
    runs,       \* number of run() invocations so far
    snapshot    \* results as the previous run() left them (<<>> before any)

vars == <<path, disk, results, pc, walkIdx, modIdx, stack, depth, fresh, runs, snapshot>>

----------------------------------------------------------------------------
(* Bounds of the model *)

MaxFiles == 3
MaxEdges == 4
MaxChain == 6
MaxRuns == 2

(* Program constants *)

SnippetLines == 10
NestingLimit == 4
ComplexityLimit == 12
LineLimit == 120

----------------------------------------------------------------------------
(* Sequences *)

Max(S) == CHOOSE x \in S : \A y \in S : y <= x

Min2(a, b) == IF a <= b THEN a ELSE b

Contains(seq, x) == \E i \in 1..Len(seq) : seq[i] = x

RECURSIVE Concat(_)
Concat(seqs) == IF seqs = <<>> THEN <<>> ELSE Head(seqs) \o Concat(Tail(seqs))

RECURSIVE SeqsOfLen(_, _)
SeqsOfLen(S, n) ==
    IF n = 0 THEN {<<>>}
    ELSE {Append(s, x) : s \in SeqsOfLen(S, n - 1), x \in S}

----------------------------------------------------------------------------
(* Syntax trees: what ast.parse returns, as far as the analyzer reads it.   *)
(* children is ast.iter_child_nodes(node) in order; doc says whether        *)
(* ast.get_docstring(node) is not None; names holds the dotted names of an  *)
(* Import (each a sequence of components), module the dotted module of an   *)
(* ImportFrom (<<>> for "from . import x", where node.module is None).      *)

Node(kind, lineno, name, doc, names, module, children) ==
    [kind |-> kind, lineno |-> lineno, name |-> name, doc |-> doc,
     names |-> names, module |-> module, children |-> children]

Leaf(kind) == Node(kind, 0, "", FALSE, <<>>, <<>>, <<>>)

Module(body) == Node("Module", 0, "", FALSE, <<>>, <<>>, body)

\* if <test>: body  else: orelse    -- the test expression is the first child
IfNode(lineno, body, orelse) ==
    Node("If", lineno, "", FALSE, <<>>, <<>>, <<Leaf("Name")>> \o body \o orelse)

\* for <target> in <iter>: body
ForNode(lineno, body) ==
    Node("For", lineno, "", FALSE, <<>>, <<>>, <<Leaf("Name"), Leaf("Name")>> \o body)

\* def name(): body
FunctionDef(lineno, name, doc, body) ==
    Node("FunctionDef", lineno, name, doc, <<>>, <<>>, <<Leaf("arguments")>> \o body)

Import(lineno, names) ==
    Node("Import", lineno, "", FALSE, names, <<>>, [i \in 1..Len(names) |-> Leaf("alias")])

ImportFrom(lineno, module) ==
    Node("ImportFrom", lineno, "", FALSE, <<>>, module, <<Leaf("alias")>>)

Pass == Leaf("Pass")

\* x = a and b : Assign(targets=[Name], value=BoolOp(op=And, values=[Name, Name]))
AssignAnd(lineno) ==
    Node("Assign", lineno, "", FALSE, <<>>, <<>>,
         <<Leaf("Name"),
           Node("BoolOp", lineno, "", FALSE, <<>>, <<>>,
                <<Leaf("And"), Leaf("Name"), Leaf("Name")>>)>>)

\* ast.walk: breadth-first from a queue of nodes
RECURSIVE WalkQueue(_)
WalkQueue(queue) ==
    IF queue = <<>> THEN <<>>
    ELSE <<Head(queue)>> \o WalkQueue(Tail(queue) \o Head(queue).children)

Walk(tree) == WalkQueue(<<tree>>)

----------------------------------------------------------------------------
(* Source text: a line is the record of what _check_pep8 and the duplicate  *)
(* signature read of it (its text, its length, whether it ends with a       *)
(* space, whether a comma is directly followed by [A-Za-z0-9_], whether it  *)
(* holds a tab).                                                            *)

Line(text, len, endsSpace, commaTight, tab) ==
    [text |-> text, len |-> len, endsSpace |-> endsSpace,
     commaTight |-> commaTight, tab |-> tab]

Plain(text, len) == Line(text, len, FALSE, FALSE, FALSE)

\* A file's content: whether open()/read() succeeds, code.splitlines(),
\* whether ast.parse(code) succeeds, and the tree it returns.
Content(readable, lines, parses, tree) ==
    [readable |-> readable, lines |-> lines, parses |-> parses, tree |-> tree]

----------------------------------------------------------------------------
(* self.results *)

EmptyResults ==
    [files |-> <<>>, errors |-> <<>>, warnings |-> <<>>, complexity |-> <<>>,
     missing_docstrings |-> <<>>, duplicates |-> <<>>, import_cycles |-> <<>>,
     pep8 |-> <<>>, imports_graph |-> <<>>]

\* results["complexity"][filepath] = complexity
DictSet(dict, key, value) ==
    [k \in (DOMAIN dict) \cup {key} |-> IF k = key THEN value ELSE dict[k]]

\* os.path.splitext(os.path.basename(filepath))[0]
Basename(filepath) == filepath.base

\* the suffix test left out: every file name passes
EndsWithPy_AnySuffix(name) == TRUE

\* f.endswith(".py") / self.path.endswith(".py")
EndsWithPy(name) == name.ext = ".py"

----------------------------------------------------------------------------
(* Rule evaluators *)

IsDefinition(node) == node.kind \in {"FunctionDef", "AsyncFunctionDef", "ClassDef"}

MissingDocstring(filepath, node) ==
    [file |-> filepath, line |-> node.lineno, msg |-> "Missing docstring in",
     kind |-> node.kind, name |-> node.name]

\* _analyze_docstrings
AnalyzeDocstrings(res, filepath, tree) ==
    LET undocumented == SelectSeq(Walk(tree), LAMBDA n : IsDefinition(n) /\ ~n.doc)
    IN  [res EXCEPT !.missing_docstrings =
            @ \o [i \in 1..Len(undocumented) |-> MissingDocstring(filepath, undocumented[i])]]

IsDecisionPoint(node) ==
    node.kind \in {"If", "For", "While", "And", "Or", "Try", "With", "ExceptHandler"}

Complexity(tree) == 1 + Len(SelectSeq(Walk(tree), IsDecisionPoint))

HighComplexity(filepath, complexity) ==
    [file |-> filepath, line |-> 0, msg |-> "has high cyclomatic complexity",
     value |-> complexity]

\* _compute_complexity
ComputeComplexity(res, filepath, tree) ==
    LET complexity == Complexity(tree)
    IN  [res EXCEPT !.complexity = DictSet(@, filepath, complexity),
                    !.warnings = IF complexity > ComplexityLimit
                                 THEN Append(@, HighComplexity(filepath, complexity))
                                 ELSE @]

\* _nesting_depth
RECURSIVE NestingDepth(_, _)
NestingDepth(node, current) ==
    IF node.kind # "If" THEN current
    ELSE Max({current} \cup
             {NestingDepth(node.children[i], current + 1) : i \in 1..Len(node.children)})

DeepNesting(filepath, node, levels) ==
    [file |-> filepath, line |-> node.lineno, msg |-> "Deep nesting", value |-> levels]

\* the `if depth > 4` of _analyze_structure
TooDeep(levels) == levels > NestingLimit

\* _analyze_structure
AnalyzeStructure(res, filepath, tree) ==
    LET deep == SelectSeq(Walk(tree),
                          LAMBDA n : n.kind = "If" /\ TooDeep(NestingDepth(n, 0)))
    IN  [res EXCEPT !.warnings =
            @ \o [i \in 1..Len(deep) |->
                      DeepNesting(filepath, deep[i], NestingDepth(deep[i], 0))]]

Pep8(filepath, i, msg) == [file |-> filepath, line |-> i, msg |-> msg]

\* the issues of one line, in the order of the four checks
LineIssues(filepath, i, line) ==
    (IF line.len > LineLimit THEN <<Pep8(filepath, i, "Line too long")>> ELSE <<>>)
    \o (IF line.endsSpace THEN <<Pep8(filepath, i, "Trailing whitespace")>> ELSE <<>>)
    \o (IF line.commaTight THEN <<Pep8(filepath, i, "Missing space after comma")>> ELSE <<>>)
    \o (IF line.tab THEN <<Pep8(filepath, i, "Tab indent found")>> ELSE <<>>)

\* _check_pep8
CheckPep8(res, filepath, lines) ==
    [res EXCEPT !.pep8 =
        @ \o Concat([i \in 1..Len(lines) |-> LineIssues(filepath, i, lines[i])])]

\* the top-level components a node contributes to `imports`
ImportsOf(node) ==
    IF node.kind = "Import" THEN [i \in 1..Len(node.names) |-> Head(node.names[i])]
    ELSE IF node.kind = "ImportFrom" /\ node.module # <<>> THEN <<Head(node.module)>>
    ELSE <<>>

CollectImports(tree) ==
    LET nodes == Walk(tree)
    IN  Concat([i \in 1..Len(nodes) |-> ImportsOf(nodes[i])])

\* graph.get(node, []) on the insertion-ordered dict, kept as a sequence of
\* [mod, imports] entries
GraphKeys(graph) == {graph[i].mod : i \in 1..Len(graph)}

GraphGet(graph, node) ==
    IF node \in GraphKeys(graph)
    THEN graph[CHOOSE i \in 1..Len(graph) : graph[i].mod = node].imports
    ELSE <<>>

\* graph[basename] = imports: an existing key keeps its position
GraphSet(graph, mod, imports) ==
    IF mod \in GraphKeys(graph)
    THEN [i \in 1..Len(graph) |->
             IF graph[i].mod = mod THEN [mod |-> mod, imports |-> imports] ELSE graph[i]]
    ELSE Append(graph, [mod |-> mod, imports |-> imports])

\* _register_imports
RegisterImports(res, filepath, tree) ==
    [res EXCEPT !.imports_graph = GraphSet(@, Basename(filepath), CollectImports(tree))]

----------------------------------------------------------------------------
(* The file system under the root.  A file name is [dir, base, ext]; the    *)
(* i-th entry that os.walk yields is d<k>/a or d<k>/b, so that two          *)
(* directories can hold files of the same name.                             *)

BaseNames == <<"a", "b">>

SlotPath(i, ext) ==
    [dir |-> (i - 1) \div Len(BaseNames),
     base |-> BaseNames[((i - 1) % Len(BaseNames)) + 1],
     ext |-> ext]

\* ten identical banner lines
Header == [i \in 1..10 |-> Plain("# license", 9)]

\* A chain of compound statements, each nested in the one before it and the
\* innermost around a pass.  "If" nests in the body of an if, "Else" in its
\* else branch (an elif when what is nested is an if), "For" in the body of a
\* for loop, "Def" in a documented function.
ChainKinds == {"If", "Else", "For", "Def"}

RECURSIVE ChainStmt(_, _)
ChainStmt(chain, lineno) ==
    IF chain = <<>> THEN Pass
    ELSE LET inner == <<ChainStmt(Tail(chain), lineno + 1)>>
         IN  CASE Head(chain) = "If" -> IfNode(lineno, inner, <<>>)
               [] Head(chain) = "Else" -> IfNode(lineno, <<Pass>>, inner)
               [] Head(chain) = "For" -> ForNode(lineno, inner)
               [] OTHER -> FunctionDef(lineno, "f", TRUE, inner)

ChainContent(chain) ==
    Content(TRUE, [i \in 1..(Len(chain) + 1) |-> Plain("stmt", 4 * i)], TRUE,
            Module(<<ChainStmt(chain, 1)>>))

\* The contents a .py file of the model can have: one of the named texts
\* below, or a chain.
\*   Unreadable      bytes that do not decode as UTF-8
\*   Broken          def f(:
\*   ImportB         import b
\*   ImportBA        import b.x,a
\*   LicensedImport  the banner, then: from a.x import f
\*   LicensedDef     the banner, then: def f(): pass
\*   Busy            twelve lines "x = a and b " (with a trailing space)
\*   Empty           no text at all
Named(name) == [name |-> name, chain |-> <<>>]

Chained(chain) == [name |-> "Chain", chain |-> chain]

DeepChain == <<"If", "If", "If", "If", "If">>

ContentIds ==
    {Named(n) : n \in {"Unreadable", "Broken", "ImportB", "ImportBA", "LicensedImport",
                       "LicensedDef", "Busy", "Empty"}}
    \cup {Chained(DeepChain)}

FileContent(id) ==
    CASE id.name = "Chain" -> ChainContent(id.chain)
      [] id.name = "Unreadable" -> Content(FALSE, <<>>, FALSE, Module(<<>>))
      [] id.name = "Broken" -> Content(TRUE, <<Plain("def f(:", 7)>>, FALSE, Module(<<>>))
      [] id.name = "ImportB" ->
            Content(TRUE, <<Plain("import b", 8)>>, TRUE,
                    Module(<<Import(1, << <<"b">> >>)>>))
      [] id.name = "ImportBA" ->
            Content(TRUE, <<Line("import b.x,a", 12, FALSE, TRUE, FALSE)>>, TRUE,
                    Module(<<Import(1, << <<"b", "x">>, <<"a">> >>)>>))
      [] id.name = "LicensedImport" ->
            Content(TRUE, Append(Header, Plain("from a.x import f", 17)), TRUE,
                    Module(<<ImportFrom(11, <<"a", "x">>)>>))
      [] id.name = "LicensedDef" ->
            Content(TRUE, Append(Header, Plain("def f(): pass", 13)), TRUE,
                    Module(<<FunctionDef(11, "f", FALSE, <<Pass>>)>>))
      [] id.name = "Busy" ->
            Content(TRUE, [i \in 1..12 |-> Line("x = a and b ", 12, TRUE, FALSE, FALSE)],
                    TRUE, Module([i \in 1..12 |-> AssignAnd(i)]))
      [] id.name = "Empty" -> Content(TRUE, <<>>, TRUE, Module(<<>>))
      [] OTHER -> Content(TRUE, <<Plain("notes", 5)>>, FALSE, Module(<<>>))

\* what a directory entry can be: a .py file with one of the contents, or a
\* file with another suffix
Entries(i) ==
    {[name |-> SlotPath(i, ".py"), content |-> c] : c \in ContentIds}
    \cup {[name |-> SlotPath(i, ".txt"), content |-> Named("Text")]}

RECURSIVE Listings(_)
Listings(n) ==
    IF n = 0 THEN {<<>>}
    ELSE {Append(l, e) : l \in Listings(n - 1), e \in Entries(n)}

DirListings == UNION {Listings(n) : n \in 0..MaxFiles}

\* the roots run() can be given
Roots ==
    {[path |-> [kind |-> "dir", ext |-> ""], disk |-> l] : l \in DirListings}
    \cup {[path |-> [kind |-> "file", ext |-> e.name.ext], disk |-> <<e>>] : e \in Entries(1)}
    \cup {[path |-> [kind |-> "none", ext |-> x], disk |-> <<>>] : x \in {"", ".py"}}

\* the content behind open(fpath)
DiskContent(fpath) ==
    FileContent(disk[CHOOSE i \in 1..Len(disk) : disk[i].name = fpath].content)

----------------------------------------------------------------------------
(* _analyze_file *)

CannotRead(filepath) == [kind |-> "Cannot read file", file |-> filepath]

SyntaxErrorIn(filepath) == [kind |-> "Syntax error", file |-> filepath]

\* results["files"].append(filepath)
RecordFile(res, filepath) == [res EXCEPT !.files = Append(@, filepath)]

\* the except branch of the read: one error, then return
RecordCannotRead(res, filepath) == [res EXCEPT !.errors = Append(@, CannotRead(filepath))]

\* the except SyntaxError branch swallowing the error: return without a finding
RecordSyntaxError_Swallowed(res, filepath) == res

\* the except SyntaxError branch: one error, then return
RecordSyntaxError(res, filepath) ==
    [res EXCEPT !.errors = Append(@, SyntaxErrorIn(filepath))]

AnalyzeFile(res, filepath, content) ==
    LET listed == RecordFile(res, filepath)
    IN  IF ~content.readable THEN RecordCannotRead(listed, filepath)
        ELSE IF ~content.parses THEN RecordSyntaxError(listed, filepath)
        ELSE RegisterImports(
                 CheckPep8(
                     AnalyzeStructure(
                         ComputeComplexity(
                             AnalyzeDocstrings(listed, filepath, content.tree),
                             filepath, content.tree),
                         filepath, content.tree),
                     filepath, content.lines),
                 filepath, content.tree)

----------------------------------------------------------------------------
(* _detect_import_cycles *)

\* the membership test missing the caller's own node: node in path[:-1]
InPath_BeforeCaller(node, p) == Contains(SubSeq(p, 1, Len(p) - 1), node)

\* `node in path`
InPath(node, p) == Contains(p, node)

\* the finding without the repeated node at its end: " -> ".join(path)
CycleFinding_Open(p, node) == [msg |-> "Cycle detected", cycle |-> p]

\* " -> ".join(path + [node]) behind "Cycle detected: "
CycleFinding(p, node) == [msg |-> "Cycle detected", cycle |-> Append(p, node)]

\* `for mod in graph`: the starting nodes, in the dict's order
StartNodes(graph) == [i \in 1..Len(graph) |-> graph[i].mod]

\* a call dfs(node, p) made with the frames of `stack` active: either the
\* finding and an immediate return, or a new frame about to loop over
\* graph.get(node, [])
DfsCall(node, p, frames) ==
    /\ depth' = Len(frames) + 1
    /\ IF InPath(node, p)
       THEN /\ results' = [results EXCEPT !.import_cycles = Append(@, CycleFinding(p, node))]
            /\ stack' = frames
       ELSE /\ stack' = Append(frames, [node |-> node, path |-> p, i |-> 1])
            /\ UNCHANGED results

Top == stack[Len(stack)]

\* `for mod in graph: dfs(mod, [])`
CycleRoot ==
    /\ pc = "cycles"
    /\ stack = <<>>
    /\ modIdx <= Len(StartNodes(results.imports_graph))
    /\ DfsCall(StartNodes(results.imports_graph)[modIdx], <<>>, stack)
    /\ modIdx' = modIdx + 1
    /\ UNCHANGED <<path, disk, pc, walkIdx, fresh, runs, snapshot>>

\* `for nxt in graph.get(node, []): dfs(nxt, path + [node])`
DfsDescend ==
    /\ pc = "cycles"
    /\ stack # <<>>
    /\ Top.i <= Len(GraphGet(results.imports_graph, Top.node))
    /\ DfsCall(GraphGet(results.imports_graph, Top.node)[Top.i],
               Append(Top.path, Top.node),
               [stack EXCEPT ![Len(stack)].i = @ + 1])
    /\ UNCHANGED <<path, disk, pc, walkIdx, modIdx, fresh, runs, snapshot>>

\* the loop of a frame is exhausted: dfs returns
DfsReturn ==
    /\ pc = "cycles"
    /\ stack # <<>>
    /\ Top.i > Len(GraphGet(results.imports_graph, Top.node))
    /\ stack' = SubSeq(stack, 1, Len(stack) - 1)
    /\ UNCHANGED <<path, disk, results, pc, walkIdx, modIdx, depth, fresh, runs, snapshot>>

\* every starting node is done: _detect_import_cycles returns
CyclesDone ==
    /\ pc = "cycles"
    /\ stack = <<>>
    /\ modIdx > Len(StartNodes(results.imports_graph))
    /\ pc' = "duplicates"
    /\ UNCHANGED <<path, disk, results, walkIdx, modIdx, stack, depth, fresh, runs, snapshot>>

----------------------------------------------------------------------------
(* _detect_duplicates *)

\* the signature taken of the whole text: tuple(lines)
Snippet_WholeText(lines) == SubSeq(lines, 1, Len(lines))

\* tuple(lines[:10])
Snippet(lines) == SubSeq(lines, 1, Min2(SnippetLines, Len(lines)))

Signature(fpath) == Snippet(DiskContent(fpath).lines)

\* `if len(files) > 1`
IsGroup(files) == Len(files) > 1

DuplicateFinding(files) == [msg |-> "Possible duplicate code in", files |-> files]

\* seen[snippet] for the snippet of files[i]
SeenWith(files, i) == SelectSeq(files, LAMBDA f : Signature(f) = Signature(files[i]))

\* the keys of `seen` in insertion order: the indexes of the files that are
\* the first with their snippet
FirstSeen(files) ==
    SelectSeq([i \in 1..Len(files) |-> i],
              LAMBDA i : \A j \in 1..(i - 1) : Signature(files[j]) # Signature(files[i]))

DuplicateFindings(files) ==
    LET keys == FirstSeen(files)
        groups == SelectSeq([k \in 1..Len(keys) |-> SeenWith(files, keys[k])], IsGroup)
    IN  [g \in 1..Len(groups) |-> DuplicateFinding(groups[g])]

\* open(fpath) of the first loop raises for a file that cannot be read or
\* decoded, before any finding is appended
DetectDuplicates ==
    /\ pc = "duplicates"
    /\ IF \E i \in 1..Len(results.files) : ~DiskContent(results.files[i]).readable
       THEN /\ pc' = "raised"
            /\ UNCHANGED results
       ELSE /\ pc' = "done"
            /\ results' = [results EXCEPT !.duplicates = @ \o DuplicateFindings(results.files)]
    /\ UNCHANGED <<path, disk, walkIdx, modIdx, stack, depth, fresh, runs, snapshot>>

----------------------------------------------------------------------------
(* run *)

\* run() up to its branch on the kind of self.path
Run ==
    /\ pc = "init"
    /\ runs' = runs + 1
    /\ IF path.kind = "file" /\ EndsWithPy(path)
       THEN /\ results' = AnalyzeFile(results, disk[1].name, FileContent(disk[1].content))
            /\ pc' = "cycles"
       ELSE IF path.kind = "dir"
       THEN /\ pc' = "walk"
            /\ UNCHANGED results
       ELSE /\ pc' = "invalid"
            /\ UNCHANGED results
    /\ walkIdx' = 1
    /\ modIdx' = 1
    /\ stack' = <<>>
    /\ depth' = 0
    /\ UNCHANGED <<path, disk, fresh, snapshot>>

\* one entry of os.walk
WalkStep ==
    /\ pc = "walk"
    /\ walkIdx <= Len(disk)
    /\ results' = IF EndsWithPy(disk[walkIdx].name)
                  THEN AnalyzeFile(results, disk[walkIdx].name,
                                   FileContent(disk[walkIdx].content))
                  ELSE results
    /\ walkIdx' = walkIdx + 1
    /\ UNCHANGED <<path, disk, pc, modIdx, stack, depth, fresh, runs, snapshot>>

\* the walk is over: on to _detect_import_cycles
WalkDone ==
    /\ pc = "walk"
    /\ walkIdx > Len(disk)
    /\ pc' = "cycles"
    /\ UNCHANGED <<path, disk, results, walkIdx, modIdx, stack, depth, fresh, runs, snapshot>>

NoSnapshot == [taken |-> FALSE, fresh |-> TRUE, results |-> EmptyResults]

\* __init__ with the results dict shared by every instance (a class attribute)
Construct_SharedResults ==
    /\ results' = results
    /\ pc' = "init"
    /\ fresh' = TRUE

\* CodeAnalyzer(path): __init__ builds the instance its own empty results
Construct ==
    /\ results' = EmptyResults
    /\ pc' = "init"
    /\ fresh' = TRUE

\* run() has returned or raised
Finished == pc \in {"done", "invalid", "raised"}

\* the caller analyses the same tree once more with a new CodeAnalyzer, as
\* each invocation of cli.main() and generate_report.main() does
NewInstance ==
    /\ Finished
    /\ runs < MaxRuns
    /\ Construct
    /\ snapshot' = [taken |-> TRUE, fresh |-> fresh, results |-> results]
    /\ UNCHANGED <<path, disk, walkIdx, modIdx, stack, depth, runs>>

\* the caller calls run() once more on the instance it already has
RunAgain ==
    /\ Finished
    /\ runs < MaxRuns
    /\ pc' = "init"
    /\ fresh' = FALSE
    /\ snapshot' = [taken |-> TRUE, fresh |-> fresh, results |-> results]
    /\ UNCHANGED <<path, disk, results, walkIdx, modIdx, stack, depth, runs>>

Init ==
    /\ \E r \in Roots : path = r.path /\ disk = r.disk
    /\ results = EmptyResults
    /\ pc = "init"
    /\ walkIdx = 1
    /\ modIdx = 1
    /\ stack = <<>>
    /\ depth = 0
    /\ fresh = TRUE
    /\ runs = 0
    /\ snapshot = NoSnapshot

Next ==
    \/ Run
    \/ WalkStep
    \/ WalkDone
    \/ CycleRoot
    \/ DfsDescend
    \/ DfsReturn
    \/ CyclesDone
    \/ DetectDuplicates

Spec == Init /\ [][Next]_vars

\* Several analyses of one unchanged tree
NextRerun ==
    \/ Next
    \/ NewInstance
    \/ RunAgain

SpecRerun == Init /\ [][NextRerun]_vars

----------------------------------------------------------------------------
(* _detect_import_cycles on its own: any import graph over three module     *)
(* names with at most MaxEdges imports in all; its keys are a prefix of     *)
(* a, b, c, so that the other names are imported without being keys.        *)

ModuleNames == <<"a", "b", "c">>

RECURSIVE GraphsFrom(_, _, _)
GraphsFrom(k, n, budget) ==
    IF k > n THEN {<<>>}
    ELSE UNION {{<<[mod |-> ModuleNames[k], imports |-> s]>> \o g :
                    s \in SeqsOfLen({ModuleNames[i] : i \in 1..Len(ModuleNames)}, l),
                    g \in GraphsFrom(k + 1, n, budget - l)} : l \in 0..budget}

Graphs == UNION {GraphsFrom(1, n, MaxEdges) : n \in 0..Len(ModuleNames)}

InitCycles ==
    /\ path = [kind |-> "dir", ext |-> ""]
    /\ disk = <<>>
    /\ \E g \in Graphs : results = [EmptyResults EXCEPT !.imports_graph = g]
    /\ pc = "cycles"
    /\ walkIdx = 1
    /\ modIdx = 1
    /\ stack = <<>>
    /\ depth = 0
    /\ fresh = TRUE
    /\ runs = 1
    /\ snapshot = NoSnapshot

NextCycles ==
    \/ CycleRoot
    \/ DfsDescend
    \/ DfsReturn
    \/ CyclesDone

SpecCycles == InitCycles /\ [][NextCycles]_vars

\* run() is one thread of control that keeps executing until it returns
FairSpecCycles == SpecCycles /\ WF_vars(NextCycles)

----------------------------------------------------------------------------
(* The per-file phase on its own: one file whose text is any chain of at    *)
(* most MaxChain nested statements, given as the root or in a directory.    *)

Chains == UNION {SeqsOfLen(ChainKinds, n) : n \in 0..MaxChain}

InitNesting ==
    /\ \E c \in Chains, k \in {"file", "dir"} :
          /\ path = [kind |-> k, ext |-> IF k = "file" THEN ".py" ELSE ""]
          /\ disk = <<[name |-> SlotPath(1, ".py"), content |-> Chained(c)]>>
    /\ results = EmptyResults
    /\ pc = "init"
    /\ walkIdx = 1
    /\ modIdx = 1
    /\ stack = <<>>
    /\ depth = 0
    /\ fresh = TRUE
    /\ runs = 0
    /\ snapshot = NoSnapshot

NextNesting ==
    \/ Run
    \/ WalkStep
    \/ WalkDone

SpecNesting == InitNesting /\ [][NextNesting]_vars

----------------------------------------------------------------------------
(* What the claims speak of *)

\* the files under the root that bear the .py suffix, in the walk's order
PyNames == SelectSeq([i \in 1..Len(disk) |-> disk[i].name], LAMBDA n : n.ext = ".py")

PySet == {PyNames[i] : i \in 1..Len(PyNames)}

ValidRoot == path.kind = "dir" \/ (path.kind = "file" /\ path.ext = ".py")

\* every candidate file has been through _analyze_file
AfterWalk == pc \in {"cycles", "duplicates", "done", "raised"}

Unreadable(f) == ~DiskContent(f).readable

Malformed(f) == DiskContent(f).readable /\ ~DiskContent(f).parses

Parseable(f) == DiskContent(f).readable /\ DiskContent(f).parses

ErrorsFor(f) == {k \in 1..Len(results.errors) : results.errors[k].file = f}

\* f has no complexity entry, no warning and no missing-docstring finding
NoTreeFinding(f) ==
    /\ f \notin DOMAIN results.complexity
    /\ \A k \in 1..Len(results.warnings) : results.warnings[k].file # f
    /\ \A k \in 1..Len(results.missing_docstrings) : results.missing_docstrings[k].file # f

\* f has no finding besides errors
NoOtherFinding(f) ==
    /\ NoTreeFinding(f)
    /\ \A k \in 1..Len(results.pep8) : results.pep8[k].file # f

----------------------------------------------------------------------------
\* C1: a run over files of which at least one cannot be read never raises;
\* it records exactly one "Cannot read file" error and no other finding for
\* each such file, and processes every other file.
C1_UnreadableFileNeverAborts ==
    (ValidRoot /\ \E f \in PySet : Unreadable(f)) =>
        /\ pc # "raised"
        /\ AfterWalk =>
              /\ \A f \in PySet :
                    Unreadable(f) =>
                        /\ Cardinality(ErrorsFor(f)) = 1
                        /\ \A k \in ErrorsFor(f) : results.errors[k].kind = "Cannot read file"
                        /\ NoOtherFinding(f)
              /\ \A f \in PySet : Contains(results.files, f)

----------------------------------------------------------------------------
\* C2: a run on a root that is neither a .py file nor a directory ends early
\* with exactly one error recorded in the results, an empty files list and
\* every other collection empty.
C2_InvalidRootRecordsOneError ==
    pc = "invalid" =>
        /\ Len(results.errors) = 1
        /\ results.files = <<>>
        /\ results.warnings = <<>>
        /\ results.missing_docstrings = <<>>
        /\ results.pep8 = <<>>
        /\ results.import_cycles = <<>>
        /\ results.duplicates = <<>>
        /\ DOMAIN results.complexity = {}

----------------------------------------------------------------------------
\* C3: once the per-file phase is over, every readable file that failed to
\* parse has exactly one error, a syntax error, and no complexity entry,
\* warning or missing-docstring finding; the import graph has keys only for
\* the files that parsed; and the files around it were all processed: each
\* file is listed and each parseable one has its complexity entry.
C3_SyntaxErrorFile ==
    (ValidRoot /\ AfterWalk) =>
        /\ \A f \in PySet :
              Malformed(f) =>
                  /\ Cardinality(ErrorsFor(f)) = 1
                  /\ \A k \in ErrorsFor(f) : results.errors[k].kind = "Syntax error"
                  /\ NoTreeFinding(f)
        /\ GraphKeys(results.imports_graph) = {f.base : f \in {g \in PySet : Parseable(g)}}
        /\ \A f \in PySet : Contains(results.files, f)
        /\ \A f \in PySet : Parseable(f) => f \in DOMAIN results.complexity

\* a malformed file was analysed between two files that parse, and its module
\* name is no key of the graph
C3_Witness ==
    /\ AfterWalk
    /\ Len(disk) = 3
    /\ PyNames = [i \in 1..3 |-> disk[i].name]
    /\ Parseable(disk[1].name)
    /\ Malformed(disk[2].name)
    /\ Parseable(disk[3].name)
    /\ Len(results.errors) = 1
    /\ disk[2].name.base \notin GraphKeys(results.imports_graph)
    /\ DOMAIN results.complexity = {disk[1].name, disk[3].name}

----------------------------------------------------------------------------
\* the signature of the claim: the first ten lines, all lines of a shorter file
C8_Signature(f) ==
    LET lines == DiskContent(f).lines
    IN  IF Len(lines) <= 10 THEN lines ELSE [i \in 1..10 |-> lines[i]]

C8_Sharing(f) == {g \in PySet : C8_Signature(g) = C8_Signature(f)}

C8_GroupsOf(f) ==
    {k \in 1..Len(results.duplicates) : Contains(results.duplicates[k].files, f)}

\* C8: when _detect_duplicates has returned, each signature (the first ten
\* lines, or all lines of a shorter file) that two or more analysed files
\* share has exactly one DuplicateGroup, which lists all and only the files
\* with that signature; every group is such a group; so a file whose
\* signature is its own is in no group and no file is in two groups.
C8_DuplicateGroups ==
    (ValidRoot /\ pc = "done") =>
        /\ \A f \in PySet :
              IF Cardinality(C8_Sharing(f)) >= 2
              THEN /\ Cardinality(C8_GroupsOf(f)) = 1
                   /\ \A k \in C8_GroupsOf(f) :
                         LET files == results.duplicates[k].files
                         IN  /\ {files[i] : i \in 1..Len(files)} = C8_Sharing(f)
                             /\ Len(files) = Cardinality(C8_Sharing(f))
              ELSE C8_GroupsOf(f) = {}
        /\ \A k \in 1..Len(results.duplicates) :
              \E f \in PySet : k \in C8_GroupsOf(f)

\* two files that share their first ten lines and differ after them are one
\* group, and the third file is in none
C8_Witness ==
    /\ pc = "done"
    /\ Len(PyNames) = 3
    /\ Len(results.duplicates) = 1
    /\ Len(results.duplicates[1].files) = 2
    /\ \E f \in PySet : C8_GroupsOf(f) = {}
    /\ \E f \in PySet, g \in PySet :
          /\ C8_Signature(f) = C8_Signature(g)
          /\ DiskContent(f).lines # DiskContent(g).lines

----------------------------------------------------------------------------
\* C9: for a valid root, once the per-file phase is over the files list
\* holds each discovered .py file exactly once and nothing else, readable and
\* parseable or not; with no .py file under the root the list is empty and
\* the run neither raises nor stops before its end.
C9_FileCount ==
    (ValidRoot /\ AfterWalk) =>
        /\ Len(results.files) = Len(PyNames)
        /\ \A f \in PySet :
              Cardinality({k \in 1..Len(results.files) : results.files[k] = f}) = 1
        /\ PyNames = <<>> => (pc = "done" \/ (pc # "raised" /\ ENABLED Next))

\* a directory with an unreadable file, a malformed file and a file of
\* another suffix: two files listed
C9_Witness ==
    /\ AfterWalk
    /\ Len(disk) = 3
    /\ Len(results.files) = 2
    /\ \E f \in PySet : Unreadable(f)
    /\ \E f \in PySet : Malformed(f)

----------------------------------------------------------------------------
(* Import graphs *)

Graph == results.imports_graph

Imported(m) == {GraphGet(Graph, m)[i] : i \in 1..Len(GraphGet(Graph, m))}

\* every module name of the graph, key or imported
AllModules == GraphKeys(Graph) \cup UNION {Imported(m) : m \in GraphKeys(Graph)}

RECURSIVE ReachableFrom(_)
ReachableFrom(S) ==
    LET T == S \cup UNION {Imported(m) : m \in S}
    IN  IF T = S THEN S ELSE ReachableFrom(T)

\* m lies on a directed import cycle
OnCycle(m) == m \in ReachableFrom(Imported(m))

Cycles == [k \in 1..Len(results.import_cycles) |-> results.import_cycles[k].cycle]

\* the traversal started from the i-th key is over
TraversalDone(i) == modIdx > i + 1 \/ (modIdx = i + 1 /\ stack = <<>>)

----------------------------------------------------------------------------
\* C4: every ImportCycle finding is the path from the repeated node to
\* itself: its first and its last identifier are that node, and the node
\* occurs nowhere between them.
C4_FindingIsTheCycle ==
    \A k \in 1..Len(Cycles) :
        LET c == Cycles[k]
        IN  /\ c[1] = c[Len(c)]
            /\ \A j \in 2..(Len(c) - 1) : c[j] # c[1]

----------------------------------------------------------------------------
\* C5: once the traversal started from a module M is over, if M lies on a
\* directed import cycle then some ImportCycle finding starts at M and ends
\* at M; no finding is ever removed.
C5_EveryStartReported ==
    pc \in {"cycles", "duplicates"} =>
        \A i \in 1..Len(Graph) :
            (TraversalDone(i) /\ OnCycle(Graph[i].mod)) =>
                \E k \in 1..Len(Cycles) :
                    /\ Cycles[k][1] = Graph[i].mod
                    /\ Cycles[k][Len(Cycles[k])] = Graph[i].mod

\* a imports b and b imports a: both a -> b -> a and b -> a -> b are reported
C5_Witness ==
    /\ pc = "duplicates"
    /\ Graph = <<[mod |-> "a", imports |-> <<"b">>], [mod |-> "b", imports |-> <<"a">>]>>
    /\ Cycles = << <<"a", "b", "a">>, <<"b", "a", "b">> >>

----------------------------------------------------------------------------
\* no call deeper than the number of distinct modules plus one
C10_DepthBound ==
    /\ depth <= Cardinality(AllModules) + 1
    /\ Len(stack) <= Cardinality(AllModules)
    /\ \A i \in 1..Len(stack) :
          /\ stack[i].path = [j \in 1..(i - 1) |-> stack[j].node]
          /\ \A j \in 1..(i - 1) : stack[j].node # stack[i].node

\* C10: on every import graph the traversal ends, and until then no dfs call
\* is deeper than the number of distinct modules plus one: the nodes of the
\* active frames are pairwise distinct and each frame's path is the nodes of
\* the frames below it.
C10_Terminates == []C10_DepthBound /\ <>(pc = "duplicates")

\* a graph with a self-import and a cycle through all three modules, in the
\* call that closes that cycle at the greatest depth
C10_Witness ==
    /\ pc = "cycles"
    /\ Cardinality(AllModules) = 3
    /\ depth = 4
    /\ \E m \in GraphKeys(Graph) : m \in Imported(m)

----------------------------------------------------------------------------
\* the depth of the claim: 1 plus the greatest depth of a conditional among
\* the descendants, 0 when there is none
RECURSIVE C6_Depth(_)
C6_Depth(node) ==
    LET below == Walk(node)
        inner == {k \in 2..Len(below) : below[k].kind = "If"}
    IN  1 + Max({0} \cup {C6_Depth(below[k]) : k \in inner})

C6_Conditionals(f) ==
    LET nodes == Walk(DiskContent(f).tree)
    IN  {nodes[k] : k \in {j \in 1..Len(nodes) : nodes[j].kind = "If"}}

C6_Warned(f, node) ==
    \E k \in 1..Len(results.warnings) :
        /\ results.warnings[k].msg = "Deep nesting"
        /\ results.warnings[k].file = f
        /\ results.warnings[k].line = node.lineno

\* C6: for a parseable file, a conditional has a "Deep nesting" warning if
\* and only if its depth is greater than 4, the depth of a conditional being
\* 1 plus the greatest depth of the conditionals among its descendants (0
\* when it has none), whatever statements lie between them.
C6_DeepNestingIffDepth ==
    AfterWalk =>
        \A f \in PySet :
            Parseable(f) =>
                \A node \in C6_Conditionals(f) : C6_Warned(f, node) <=> C6_Depth(node) > 4

----------------------------------------------------------------------------
====
